---- MODULE Spec2Model ----
(***************************************************************************)
(* MilkDrop-Shake: the voice engine (services/voiceEngine.ts), the morphic *)
(* smoother, the beat detector and the shader preview's synthetic clock.   *)
(*                                                                         *)
(* JavaScript numbers are modelled as exact rationals <<n, d>> in lowest   *)
(* terms (d > 0), extended with the IEEE values NaN = <<0, 0>>,            *)
(* +Infinity = <<1, 0>> and -Infinity = <<-1, 0>>.  Rounding of doubles is *)
(* not modelled.                                                           *)
(***************************************************************************)
EXTENDS Integers, Sequences, FiniteSets, TLC

\* ------------------------------------------------------------------------
\* Bounds of the model
\* ------------------------------------------------------------------------
MaxFrames == 2
MaxNodes == 1
MaxEdgeFrames == 2
MaxRenders == 3
MaxPropChanges == 2
MaxSmoothSteps == 3
MaxSettingChanges == 1
MaxSamples == 3
MaxIntervals == 2
MaxFold == 3
MaxSwitches == 2
MaxHandles == 3
MaxAttach == 2
MaxSelects == 1

\* ------------------------------------------------------------------------
\* IEEE-style arithmetic on rationals
\* ------------------------------------------------------------------------
Abs(a) == IF a < 0 THEN -a ELSE a

Sgn(a) == IF a < 0 THEN -1 ELSE IF a > 0 THEN 1 ELSE 0

RECURSIVE GCD(_, _)
GCD(a, b) == IF b = 0 THEN a ELSE GCD(b, a % b)

NaN == <<0, 0>>

IsNaN(x) == x = NaN

IsFinite(x) == x[2] > 0

Norm(n, d) ==
  IF d = 0 THEN <<Sgn(n), 0>>
  ELSE LET g == GCD(Abs(n), Abs(d))
           s == IF d < 0 THEN -1 ELSE 1
       IN <<s * (n \div g), s * (d \div g)>>

R(n, d) == Norm(n, d)

RNeg(x) == <<-x[1], x[2]>>

RAdd(x, y) ==
  IF IsNaN(x) \/ IsNaN(y) THEN NaN
  ELSE IF ~IsFinite(x) THEN (IF ~IsFinite(y) /\ y # x THEN NaN ELSE x)
  ELSE IF ~IsFinite(y) THEN y
  ELSE LET g == GCD(x[2], y[2])
           l == (x[2] \div g) * y[2]
       IN Norm(x[1] * (l \div x[2]) + y[1] * (l \div y[2]), l)

RSub(x, y) == RAdd(x, RNeg(y))

RMul(x, y) ==
  IF IsNaN(x) \/ IsNaN(y) THEN NaN
  ELSE IF ~IsFinite(x) \/ ~IsFinite(y)
       THEN (IF x[1] = 0 \/ y[1] = 0 THEN NaN ELSE <<Sgn(x[1]) * Sgn(y[1]), 0>>)
  ELSE IF x[1] = 0 \/ y[1] = 0 THEN <<0, 1>>
  ELSE LET g1 == GCD(Abs(x[1]), y[2])
           g2 == GCD(Abs(y[1]), x[2])
       IN Norm((x[1] \div g1) * (y[1] \div g2), (x[2] \div g2) * (y[2] \div g1))

RDiv(x, y) ==
  IF IsNaN(x) \/ IsNaN(y) THEN NaN
  ELSE IF ~IsFinite(y)
       THEN (IF ~IsFinite(x) THEN NaN ELSE <<0, 1>>)
  ELSE IF y[1] = 0
       THEN <<Sgn(x[1]), 0>>
  ELSE IF ~IsFinite(x) THEN <<Sgn(x[1]) * Sgn(y[1]), 0>>
  ELSE RMul(x, Norm(y[2], y[1]))

\* x < y; every comparison with NaN is false
RLt(x, y) ==
  IF IsNaN(x) \/ IsNaN(y) THEN FALSE
  ELSE IF ~IsFinite(x) \/ ~IsFinite(y)
       THEN (IF ~IsFinite(x) /\ ~IsFinite(y) THEN x[1] < y[1]
             ELSE IF ~IsFinite(x) THEN x[1] < 0
             ELSE y[1] > 0)
  ELSE LET g == GCD(x[2], y[2])
       IN x[1] * (y[2] \div g) < y[1] * (x[2] \div g)

RGt(x, y) == RLt(y, x)

RLe(x, y) == ~IsNaN(x) /\ ~IsNaN(y) /\ ~RLt(y, x)

RECURSIVE RPow(_, _)
RPow(x, n) == IF n = 0 THEN <<1, 1>> ELSE RMul(x, RPow(x, n - 1))

Zero == <<0, 1>>

One == <<1, 1>>

InUnit(x) == RLe(Zero, x) /\ RLe(x, One)

\* ------------------------------------------------------------------------
\* State
\* ------------------------------------------------------------------------
VARIABLES
  analyser,        \* TRUE once ensureContext created context, analyser, dataArray
  binCount,        \* analyser.frequencyBinCount
  dataArray,       \* the byte buffer, <<>> for null
  nextNode,        \* number of source nodes created so far
  sourceNode,      \* id of the node held in sourceNode, 0 for null
  connected,       \* ids of the source nodes connected to the analyser
  stream,          \* id of the MediaStream held in stream, 0 for null
  liveStreams,     \* ids of the MediaStreams whose tracks are not stopped
  micPending,      \* startMicrophone calls suspended at await getUserMedia
  state,           \* the module-level VoiceState
  lastBassEnergy,
  beatTimer,
  beatSettings,    \* morphicSettings.beat handed to getAudioState
  now,             \* performance.now() of the latest frame, ms
  ret,             \* the VoiceState returned by the latest getAudioState call
  raw,             \* raw measures of the latest analysed snapshot
  call,            \* "none", "default" (no analyser) or "analysed"
  hadSource,       \* a source node was connected during the latest call
  onset,           \* the latest call detected an onset
  jump,            \* the latest call saw energyDiff above the threshold
  onsetLog,        \* detection times of all onsets so far
  sinceTrigger,    \* enabled frames since the last onset, -1 if not tracked
  trigDecay,       \* decay in force at the last onset
  frames,
  settingChanges,
  variant,         \* "settings": the preview taking MorphicSettings; "basic": the
                   \* preview of components/ShaderPreview.tsx
  voiceState,      \* the voiceState prop of ShaderPreview
  settings,        \* the settings prop of ShaderPreview
  dirty,           \* a dependency of the effect changed and it has not re-run
  requestRef,      \* TRUE while the handle in requestRef names a pending callback
  renderVoice,     \* voiceState as captured by the pending render closure
  renderSettings,  \* settings as captured by the pending render closure
  lastTime,        \* lastTime of the render closure, ms
  timeRef,         \* timeRef.current, the synthetic clock
  perfNow,         \* the latest performance.now() of the preview, ms
  lastStamp,       \* the timestamp handed to the latest frame callback, ms
  rendered,        \* the latest step of the preview was a render call
  silentRun,       \* consecutive rendered frames with silence = true
  runStart,        \* timeRef before the current run of silent frames
  runDts,          \* the dt values, in ms, of the current run of silent frames
  uniforms,        \* the uniforms the latest frame handed to the GL program
  renders,
  propChanges,
  smCurrent,       \* current of the smoothed channel
  smTarget,        \* the target held constant
  smSteps,
  fileCall,        \* "none", "analysis" (analyzeAudioFile) or "tempo"
  channelData,     \* channel 0 of the decoded buffer of the latest analysis
  peaks,           \* the peak times of the latest tempo estimation, s
  intervals,       \* the inter-peak intervals it retained
  folded,          \* its folding loops ran to their end
  fileOutcome,     \* "none", "returned" or "threw"
  fileResult,      \* the AudioFileAnalysis returned, NoResult if none
  mounted,         \* App is mounted
  morphSource,     \* the morphSource state of App
  audioRef,        \* audioRef.current holds the <audio> element
  spotifyToken,    \* a streaming token is present
  morphLoopRef,    \* morphLoopRef.current, a frame-request handle
  morphPending,    \* handles of the morph-loop callbacks still to fire
  nextHandle,      \* the latest handle requestAnimationFrame returned
  micNodes,        \* ids of the source nodes made from a microphone stream
  nextStream,      \* number of MediaStreams obtained so far
  micCalls,        \* startMicrophone calls so far
  micRejected,     \* startMicrophone calls that were rejected
  alerts,          \* alert() calls so far
  frameError,      \* the latest morph frame raised an error
  uncaught,        \* errors that left a frame callback to the scheduler
  switches,
  restartTimers,   \* pending setTimeout callbacks of handleLocalAudioSelect
  selects,         \* files selected so far
  appStep,         \* the handler that ran last
  synthCall,       \* "none", "poll", "noTrack" or "blend": the producer that ran
  currentTrack,    \* the track the poll fetched, NoTrack if none
  synthPulse,      \* the beat pulse the producer derived
  synthState       \* the VoiceState the producer handed to setCurrentVoiceState

engineVars == <<analyser, binCount, nextNode, sourceNode, connected, stream,
                liveStreams, micPending>>

voiceVars == <<state, lastBassEnergy, beatTimer, now, ret, raw, call, hadSource,
               onset, jump, onsetLog, sinceTrigger, trigDecay, frames>>

configVars == <<beatSettings, settingChanges>>

shaderVars == <<variant, voiceState, settings, dirty, requestRef, renderVoice,
                renderSettings, lastTime, timeRef, perfNow, lastStamp, rendered,
                silentRun, runStart, runDts, uniforms, renders, propChanges>>

smoothVars == <<smCurrent, smTarget, smSteps>>

fileVars == <<fileCall, channelData, peaks, intervals, folded, fileOutcome,
              fileResult>>

loopVars == <<morphLoopRef, morphPending, nextHandle>>

appVars == <<mounted, morphSource, audioRef, spotifyToken, loopVars, micNodes,
             nextStream, micCalls, micRejected, alerts, frameError, uncaught,
             switches, restartTimers, selects, appStep>>

synthVars == <<synthCall, currentTrack, synthPulse, synthState>>

\* the state outside the voice engine, the preview and the smoother
restVars == <<fileVars, appVars, synthVars>>

audioVars == <<engineVars, dataArray, voiceVars, configVars>>

vars == <<audioVars, shaderVars, smoothVars, restVars>>

\* ------------------------------------------------------------------------
\* Inputs
\* ------------------------------------------------------------------------
\* lengths of the frequency snapshot the provider supplies
Lens == {0, 2, 100}

\* elapsed ms between two frames
Dts == {50, 250}

\* ms between the two performance.now() reads of one call
Jitter == {0, 1}

Sensitivities == {R(1, 1), R(2, 1)}

Decays == {R(47, 50), One}

BeatSettingsSet ==
  [enabled : BOOLEAN, amplitude : {R(1, 2)}, sensitivity : Sensitivities,
   decay : Decays]

\* bins lo .. hi-1 (0-based) hold byte b, every other bin holds 0
Fill(len, lo, hi, b) == [i \in 1..len |-> IF lo < i /\ i <= hi THEN b ELSE 0]

Min2(a, b) == IF a < b THEN a ELSE b

Max2(a, b) == IF a > b THEN a ELSE b

SpikeBin(len) == Min2(15, len - 1)

Snapshots(len) ==
  { Fill(len, 0, 0, 0),
    Fill(len, 0, len, 255),
    Fill(len, 0, Max2(len \div 20, 1), 255),
    Fill(len, SpikeBin(len), SpikeBin(len) + 1, 255) }

\* snapshots whose mean magnitude lies next to 0.005, and a loud one
EdgeSnapshots(len) ==
  { Fill(len, 0, 1, (255 * len) \div 200),
    Fill(len, 0, 1, (255 * len) \div 200 + 1),
    Fill(len, 0, 1, (5 * len) \div 4),
    Fill(len, 0, 1, (13 * len) \div 10),
    Fill(len, 0, len, 255),
    Fill(len, 0, 0, 0) }

\* ------------------------------------------------------------------------
\* services/voiceEngine.ts
\* ------------------------------------------------------------------------
SMOOTH_ACCUM == R(4, 100)

SMOOTH_DECAY == R(2, 100)

\* mutant: the two rates exchanged
applyMorphicSmoothing_Swapped(current, target) ==
  LET factor == IF RGt(target, current) THEN SMOOTH_DECAY ELSE SMOOTH_ACCUM
  IN RAdd(current, RMul(RSub(target, current), factor))

applyMorphicSmoothing(current, target) ==
  LET factor == IF RGt(target, current) THEN SMOOTH_ACCUM ELSE SMOOTH_DECAY
  IN RAdd(current, RMul(RSub(target, current), factor))

\* mutant: the bass band taken as the first 20% of the bins
bEndOf_Wide(len) == (2 * len) \div 10

bEndOf(len) == len \div 10

\* mutant: the mid band taken up to half of the bins
mEndOf_Half(len) == len \div 2

mEndOf(len) == (4 * len) \div 10

\* sum of dataArray[i] over the 0-based bins lo .. hi-1, halving the range
RECURSIVE SumBytes(_, _, _)
SumBytes(data, lo, hi) ==
  IF lo >= hi THEN 0
  ELSE IF hi = lo + 1 THEN data[lo + 1]
  ELSE IF hi = lo + 2 THEN data[lo + 1] + data[lo + 2]
  ELSE IF hi = lo + 3 THEN data[lo + 1] + data[lo + 2] + data[lo + 3]
  ELSE SumBytes(data, lo, (lo + hi) \div 2) + SumBytes(data, (lo + hi) \div 2, hi)

\* line 91: a later bin replaces the peak only if its byte is strictly larger
PickPeak(data, l, r) == IF data[r + 1] > data[l + 1] THEN r ELSE l

\* lines 91-94 over the 0-based bins lo .. hi-1 (lo < hi): the first bin
\* holding the largest byte of the range
RECURSIVE PeakScan(_, _, _)
PeakScan(data, lo, hi) ==
  IF hi = lo + 1 THEN lo
  ELSE IF hi = lo + 2 THEN PickPeak(data, lo, lo + 1)
  ELSE PickPeak(data, PeakScan(data, lo, (lo + hi) \div 2),
                PeakScan(data, (lo + hi) \div 2, hi))

\* line 91 against the initial peakVal = 0 of line 82
PeakOrZero(data, pk) == IF data[pk + 1] > 0 THEN pk ELSE 0

\* lines 81-82, 91-94: peakFreq stays 0 unless some val exceeds peakVal = 0
PeakFreq(data) ==
  IF Len(data) = 0 THEN 0
  ELSE PeakOrZero(data, PeakScan(data, 0, Len(data)))

\* the loop of lines 88-98, val = dataArray[i] / 255: the sum of val over the
\* 0-based bins lo .. hi-1
BandSum(data, lo, hi) == R(SumBytes(data, lo, hi), 255)

\* lines 84-86, 100, 103 and the band means of lines 119-121
AnalyseAt(data, peakFreq) ==
  LET len == Len(data)
      bEnd == bEndOf(len)
      mEnd == mEndOf(len)
  IN [rawVol |-> RDiv(BandSum(data, 0, len), R(len, 1)),
      rawBass |-> RDiv(BandSum(data, 0, bEnd), R(bEnd, 1)),
      rawMid |-> RDiv(BandSum(data, bEnd, mEnd), R(mEnd - bEnd, 1)),
      rawTreble |-> RDiv(BandSum(data, mEnd, len), R(len - mEnd, 1)),
      peakFreq |-> peakFreq,
      rawPitch |-> RDiv(R(peakFreq, 1), R(len, 1))]

Analyse(data) == AnalyseAt(data, PeakFreq(data))

EPSILON == R(5, 1000)

\* mutant: the former, higher lock threshold
IsSilent_Coarse(rawVol) == RLt(rawVol, R(5, 100))

IsSilent(rawVol) == RLt(rawVol, EPSILON)

REFRACTORY == 200

\* mutant: an onset stamps the timer but leaves the intensity as it was
BeatDetect_KeepIntensity(bs, rawBass, lastBass, intensity, timer, t1, t2) ==
  IF bs.enabled
  THEN LET energyDiff == RSub(rawBass, lastBass)
           over == RGt(energyDiff, RDiv(R(4, 10), bs.sensitivity))
           fire == over /\ t1 - timer > REFRACTORY
       IN [beatIntensity |-> RMul(intensity, bs.decay),
           beatTimer |-> IF fire THEN t2 ELSE timer,
           onset |-> fire, jump |-> over]
  ELSE [beatIntensity |-> Zero, beatTimer |-> timer, onset |-> FALSE,
        jump |-> FALSE]

\* mutant: the decay is skipped in the frame of an onset
BeatDetect_NoDecayOnTrigger(bs, rawBass, lastBass, intensity, timer, t1, t2) ==
  IF bs.enabled
  THEN LET energyDiff == RSub(rawBass, lastBass)
           over == RGt(energyDiff, RDiv(R(4, 10), bs.sensitivity))
           fire == over /\ t1 - timer > REFRACTORY
       IN [beatIntensity |-> IF fire THEN One ELSE RMul(intensity, bs.decay),
           beatTimer |-> IF fire THEN t2 ELSE timer,
           onset |-> fire, jump |-> over]
  ELSE [beatIntensity |-> Zero, beatTimer |-> timer, onset |-> FALSE,
        jump |-> FALSE]

\* mutant: the refractory test is dropped
BeatDetect_NoRefractory(bs, rawBass, lastBass, intensity, timer, t1, t2) ==
  IF bs.enabled
  THEN LET energyDiff == RSub(rawBass, lastBass)
           fire == RGt(energyDiff, RDiv(R(4, 10), bs.sensitivity))
           spiked == IF fire THEN One ELSE intensity
       IN [beatIntensity |-> RMul(spiked, bs.decay),
           beatTimer |-> IF fire THEN t2 ELSE timer,
           onset |-> fire, jump |-> fire]
  ELSE [beatIntensity |-> Zero, beatTimer |-> timer, onset |-> FALSE,
        jump |-> FALSE]

\* mutant: the jump is measured from zero, not from the previous frame's bass
BeatDetect_AbsoluteJump(bs, rawBass, lastBass, intensity, timer, t1, t2) ==
  IF bs.enabled
  THEN LET over == RGt(rawBass, RDiv(R(4, 10), bs.sensitivity))
           fire == over /\ t1 - timer > REFRACTORY
           spiked == IF fire THEN One ELSE intensity
       IN [beatIntensity |-> RMul(spiked, bs.decay),
           beatTimer |-> IF fire THEN t2 ELSE timer,
           onset |-> fire, jump |-> over]
  ELSE [beatIntensity |-> Zero, beatTimer |-> timer, onset |-> FALSE,
        jump |-> FALSE]

\* mutant: a disabled detector still stamps onsets and only mutes the pulse
BeatDetect_StampWhenDisabled(bs, rawBass, lastBass, intensity, timer, t1, t2) ==
  LET energyDiff == RSub(rawBass, lastBass)
      over == RGt(energyDiff, RDiv(R(4, 10), bs.sensitivity))
      fire == over /\ t1 - timer > REFRACTORY
      spiked == IF fire THEN One ELSE intensity
  IN [beatIntensity |-> IF bs.enabled THEN RMul(spiked, bs.decay) ELSE Zero,
      beatTimer |-> IF fire THEN t2 ELSE timer,
      onset |-> fire, jump |-> over]

\* lines 105-114: t1 and t2 are the two performance.now() reads
BeatDetect(bs, rawBass, lastBass, intensity, timer, t1, t2) ==
  IF bs.enabled
  THEN LET energyDiff == RSub(rawBass, lastBass)
           over == RGt(energyDiff, RDiv(R(4, 10), bs.sensitivity))
           fire == over /\ t1 - timer > REFRACTORY
           spiked == IF fire THEN One ELSE intensity
       IN [beatIntensity |-> RMul(spiked, bs.decay),
           beatTimer |-> IF fire THEN t2 ELSE timer,
           onset |-> fire, jump |-> over]
  ELSE [beatIntensity |-> Zero, beatTimer |-> timer, onset |-> FALSE,
        jump |-> FALSE]

InitialState ==
  [volume |-> Zero, pitch |-> Zero, bass |-> Zero, mid |-> Zero,
   treble |-> Zero, silence |-> TRUE, beatIntensity |-> Zero]

NoRaw ==
  [rawVol |-> Zero, rawBass |-> Zero, rawMid |-> Zero, rawTreble |-> Zero,
   peakFreq |-> 0, rawPitch |-> Zero]

\* ensureContext(): the first call creates context, analyser and dataArray
ensureContext ==
  /\ analyser' = TRUE
  /\ dataArray' = IF analyser THEN dataArray ELSE Fill(binCount, 0, 0, 0)

\* One call of getAudioState(beatSettings) at the frame dt ms after the latest
\* one.  getByteFrequencyData fills dataArray with a snapshot of S while a
\* source node is connected to the analyser, and with zeros otherwise.
FrameCoreAt(S, maxFrames, gaps) ==
  /\ frames < maxFrames
  /\ frames' = frames + 1
  /\ hadSource' = (connected # {})
  /\ IF ~analyser
     THEN /\ \E dt \in gaps : now' = now + dt
          /\ ret' = [state EXCEPT !.silence = TRUE]
          /\ call' = "default"
          /\ UNCHANGED <<dataArray, state, lastBassEnergy, beatTimer, raw, onset,
                         jump, onsetLog, sinceTrigger, trigDecay>>
     ELSE \E data \in (IF connected # {} THEN S ELSE {Fill(binCount, 0, 0, 0)}) :
            \E a \in {Analyse(data)} :
            \E dt \in gaps, j \in Jitter :
            \E b \in {BeatDetect(beatSettings, a.rawBass, lastBassEnergy,
                                 state.beatIntensity, beatTimer, now + dt,
                                 now + dt + j)} :
            \E s \in {[volume |-> applyMorphicSmoothing(state.volume, a.rawVol),
                       bass |-> applyMorphicSmoothing(state.bass, a.rawBass),
                       mid |-> applyMorphicSmoothing(state.mid, a.rawMid),
                       treble |-> applyMorphicSmoothing(state.treble, a.rawTreble),
                       pitch |-> applyMorphicSmoothing(state.pitch, a.rawPitch),
                       silence |-> IsSilent(a.rawVol),
                       beatIntensity |-> b.beatIntensity]} :
               /\ (j = 0 \/ b.onset)
               /\ now' = now + dt
               /\ dataArray' = data
               /\ state' = s
               /\ ret' = s
               /\ raw' = a
               /\ call' = "analysed"
               /\ lastBassEnergy' = a.rawBass
               /\ beatTimer' = b.beatTimer
               /\ onset' = b.onset
               /\ jump' = b.jump
               /\ onsetLog' = IF b.onset THEN Append(onsetLog, now') ELSE onsetLog
               /\ sinceTrigger' =
                    IF ~beatSettings.enabled THEN -1
                    ELSE IF b.onset THEN 0
                    ELSE IF sinceTrigger >= 0 /\ beatSettings.decay = trigDecay
                         THEN sinceTrigger + 1
                    ELSE -1
               /\ trigDecay' = IF b.onset THEN beatSettings.decay ELSE trigDecay

\* the same with the frames 50 or 250 ms apart
FrameCore(S, maxFrames) == FrameCoreAt(S, maxFrames, Dts)

\* a call of getAudioState on its own: nothing outside the engine changes
Frame(S, maxFrames) ==
  /\ FrameCore(S, maxFrames)
  /\ UNCHANGED <<engineVars, configVars, shaderVars, smoothVars, restVars>>

\* getAudioState(beatSettings), called once per frame of the morph loop
getAudioState == Frame(Snapshots(binCount), MaxFrames)

\* getAudioState(beatSettings) on snapshots around the silence threshold
getAudioStateEdge == Frame(EdgeSnapshots(binCount), MaxEdgeFrames)

\* startAudioElement(element)
startAudioElement ==
  /\ nextNode < MaxNodes
  /\ ensureContext
  /\ nextNode' = nextNode + 1
  /\ sourceNode' = nextNode'
  /\ connected' = (connected \ {sourceNode}) \cup {nextNode'}
  /\ UNCHANGED <<binCount, stream, liveStreams, micPending, voiceVars, configVars,
                 shaderVars, smoothVars, restVars>>

\* stopAudioEngine()
stopAudioEngine ==
  /\ stream' = 0
  /\ liveStreams' = liveStreams \ {stream}
  /\ sourceNode' = 0
  /\ connected' = connected \ {sourceNode}
  /\ UNCHANGED <<analyser, binCount, dataArray, nextNode, micPending, voiceVars,
                 configVars, shaderVars, smoothVars, restVars>>

\* updateBeat(key, val): the settings panel replaces one field of
\* morphicSettings.beat
updateBeat ==
  /\ settingChanges < MaxSettingChanges
  /\ settingChanges' = settingChanges + 1
  /\ \E bs \in BeatSettingsSet :
       /\ bs # beatSettings
       /\ \/ bs = [beatSettings EXCEPT !.enabled = bs.enabled]
          \/ bs = [beatSettings EXCEPT !.sensitivity = bs.sensitivity]
          \/ bs = [beatSettings EXCEPT !.decay = bs.decay]
       /\ beatSettings' = bs
  /\ UNCHANGED <<engineVars, dataArray, voiceVars, shaderVars, smoothVars,
               restVars>>

DefaultBeat ==
  [enabled |-> FALSE, amplitude |-> R(1, 2), sensitivity |-> One,
   decay |-> R(94, 100)]

VoiceInit ==
  /\ analyser = FALSE
  /\ binCount \in Lens
  /\ dataArray = <<>>
  /\ nextNode = 0
  /\ sourceNode = 0
  /\ connected = {}
  /\ stream = 0
  /\ liveStreams = {}
  /\ micPending = 0
  /\ state = InitialState
  /\ lastBassEnergy = Zero
  /\ beatTimer = 0
  /\ beatSettings = DefaultBeat
  /\ now = 1000
  /\ ret = InitialState
  /\ raw = NoRaw
  /\ call = "none"
  /\ hadSource = FALSE
  /\ onset = FALSE
  /\ jump = FALSE
  /\ onsetLog = <<>>
  /\ sinceTrigger = -1
  /\ trigDecay = One
  /\ frames = 0
  /\ settingChanges = 0

\* ------------------------------------------------------------------------
\* ShaderPreview: the render loop and the synthetic clock
\* ------------------------------------------------------------------------
Variants == {"settings", "basic"}

Viscosities == {Zero, R(1, 2), One}

\* ms from the latest performance.now() to the begin time of the next frame;
\* a frame may have begun before the task that ran last read its clock
FrameGaps == {-5, 16, 33}

\* ms the effect runs after the latest performance.now()
EffectDelays == {10}

Loud ==
  [volume |-> R(1, 2), pitch |-> R(1, 4), bass |-> R(1, 2), mid |-> R(1, 4),
   treble |-> R(1, 4), silence |-> FALSE, beatIntensity |-> R(1, 2)]

VoiceProps == {InitialState, Loud}

\* the MorphicSettings of App.tsx lines 108-112 with viscosity v
SettingsOf(v) ==
  [beat |-> [amplitude |-> R(1, 2)],
   environment |-> [turbulence |-> R(1, 5), viscosity |-> v, flow |-> R(1, 10)],
   visual |-> [colorShift |-> Zero, fidelity |-> One, globalIntensity |-> One]]

\* values of the Master Intensity slider (0.1 .. 3)
Intensities == {R(1, 2), One, R(3, 1)}

NoUniforms == [none |-> TRUE]

\* gl.canvas.width, gl.canvas.height
Viewport == <<"width", "height">>

\* the uniforms one frame sets: ShaderPreview.tsx lines 112-119 for the
\* preview taking beatAmplitude, part_000 lines 123-138 for the one taking
\* MorphicSettings
Uniforms(kind, time, v, st) ==
  IF kind = "basic"
  THEN [time |-> time, res |-> Viewport, vol |-> v.volume, pit |-> v.pitch,
        bas |-> v.bass, mid |-> v.mid, tre |-> v.treble,
        beat |-> RMul(v.beatIntensity, st.beat.amplitude)]
  ELSE LET intensity == st.visual.globalIntensity
       IN [time |-> time, res |-> Viewport,
           vol |-> RMul(v.volume, intensity),
           pit |-> RMul(v.pitch, intensity),
           bas |-> RMul(v.bass, intensity),
           mid |-> RMul(v.mid, intensity),
           tre |-> RMul(v.treble, intensity),
           beat |-> RMul(RMul(v.beatIntensity, st.beat.amplitude), intensity),
           turb |-> st.environment.turbulence,
           visc |-> st.environment.viscosity,
           flow |-> st.environment.flow,
           cshift |-> st.visual.colorShift,
           fidelity |-> st.visual.fidelity]

\* mutant: the clock is slowed down during silence instead of held
Advance_SlowInSilence(time, silence, dt, kind, viscosity) ==
  LET scale == IF kind = "settings"
               THEN RDiv(One, RAdd(viscosity, R(1, 10))) ELSE One
  IN IF ~silence THEN RAdd(time, RMul(dt, scale))
     ELSE RAdd(time, RMul(RMul(dt, scale), R(1, 10)))

\* the topological lock: timeRef.current after a frame of dt seconds
Advance(time, silence, dt, kind, viscosity) ==
  LET scale == IF kind = "settings"
               THEN RDiv(One, RAdd(viscosity, R(1, 10))) ELSE One
  IN IF ~silence THEN RAdd(time, RMul(dt, scale)) ELSE time

ShaderInit ==
  /\ voiceState = InitialState
  /\ dirty = TRUE
  /\ requestRef = FALSE
  /\ renderVoice = InitialState
  /\ renderSettings = settings
  /\ lastTime = 0
  /\ timeRef = Zero
  /\ perfNow = 1000
  /\ lastStamp = 0
  /\ rendered = FALSE
  /\ silentRun = 0
  /\ runStart = Zero
  /\ runDts = {}
  /\ uniforms = NoUniforms
  /\ renders = 0
  /\ propChanges = 0

\* setCurrentVoiceState(v): App hands a new voiceState object to the preview
setCurrentVoiceState ==
  /\ propChanges < MaxPropChanges
  /\ propChanges' = propChanges + 1
  /\ \E v \in VoiceProps : voiceState' = v
  /\ dirty' = TRUE
  /\ rendered' = FALSE
  /\ UNCHANGED <<variant, settings, requestRef, renderVoice, renderSettings,
                 lastTime, timeRef, perfNow, lastStamp, silentRun, runStart,
                 runDts, uniforms, renders, audioVars, smoothVars, restVars>>

\* updateEnv('viscosity', val): App hands a new settings object to the preview
updateEnv ==
  /\ propChanges < MaxPropChanges
  /\ propChanges' = propChanges + 1
  /\ \E v \in Viscosities :
       /\ v # settings.environment.viscosity
       /\ settings' = [settings EXCEPT !.environment.viscosity = v]
  /\ dirty' = TRUE
  /\ rendered' = FALSE
  /\ UNCHANGED <<variant, voiceState, requestRef, renderVoice, renderSettings,
                 lastTime, timeRef, perfNow, lastStamp, silentRun, runStart,
                 runDts, uniforms, renders, audioVars, smoothVars, restVars>>

\* updateVis('globalIntensity', val): only the App with MorphicSettings has
\* the control
updateVis ==
  /\ variant = "settings"
  /\ propChanges < MaxPropChanges
  /\ propChanges' = propChanges + 1
  /\ \E g \in Intensities :
       /\ g # settings.visual.globalIntensity
       /\ settings' = [settings EXCEPT !.visual.globalIntensity = g]
  /\ dirty' = TRUE
  /\ rendered' = FALSE
  /\ UNCHANGED <<variant, voiceState, requestRef, renderVoice, renderSettings,
                 lastTime, timeRef, perfNow, lastStamp, silentRun, runStart,
                 runDts, uniforms, renders, audioVars, smoothVars, restVars>>

\* mutant: the effect starts the clock again at 0
useEffect_ResetsClock ==
  /\ dirty
  /\ dirty' = FALSE
  /\ \E e \in EffectDelays : perfNow' = perfNow + e
  /\ lastTime' = perfNow'
  /\ timeRef' = Zero
  /\ renderVoice' = voiceState
  /\ renderSettings' = settings
  /\ requestRef' = TRUE
  /\ rendered' = FALSE
  /\ UNCHANGED <<variant, voiceState, settings, lastStamp, silentRun,
                 runStart, runDts, uniforms, renders, propChanges, audioVars,
                 smoothVars,
                 restVars>>

\* the effect: the cleanup of the previous run cancels its frame callback,
\* then the body captures the props, reads performance.now() and requests
\* the first frame
useEffect ==
  /\ dirty
  /\ dirty' = FALSE
  /\ \E e \in EffectDelays : perfNow' = perfNow + e
  /\ lastTime' = perfNow'
  /\ renderVoice' = voiceState
  /\ renderSettings' = settings
  /\ requestRef' = TRUE
  /\ rendered' = FALSE
  /\ UNCHANGED <<variant, voiceState, settings, timeRef, lastStamp, silentRun,
                 runStart, runDts, uniforms, renders, propChanges, audioVars,
                 smoothVars,
                 restVars>>

\* render(now): one frame callback; stamp is the frame's begin time
render ==
  /\ requestRef
  /\ renders < MaxRenders
  /\ renders' = renders + 1
  /\ \E gap \in FrameGaps :
       LET stamp == perfNow + gap
           dt == R(stamp - lastTime, 1000)
       IN /\ stamp >= lastStamp
          /\ lastStamp' = stamp
          /\ perfNow' = Max2(perfNow, stamp)
          /\ lastTime' = stamp
          /\ timeRef' = Advance(timeRef, renderVoice.silence, dt, variant,
                                renderSettings.environment.viscosity)
          /\ runDts' = IF renderVoice.silence
                       THEN (IF silentRun = 0 THEN {} ELSE runDts)
                            \cup {stamp - lastTime}
                       ELSE {}
          /\ uniforms' = Uniforms(variant, timeRef', renderVoice, renderSettings)
  /\ silentRun' = IF renderVoice.silence THEN silentRun + 1 ELSE 0
  /\ runStart' = IF renderVoice.silence /\ silentRun = 0 THEN timeRef ELSE runStart
  /\ rendered' = TRUE
  /\ UNCHANGED <<variant, voiceState, settings, dirty, requestRef, renderVoice,
                 renderSettings, propChanges, audioVars, smoothVars, restVars>>

\* ------------------------------------------------------------------------
\* The temporal smoother on its own
\* ------------------------------------------------------------------------
SmoothVals == {Zero, R(1, 5), R(2, 5), R(3, 5), R(4, 5), One}

\* one more frame with the same target
smooth ==
  /\ smSteps < MaxSmoothSteps
  /\ smSteps' = smSteps + 1
  /\ smCurrent' = applyMorphicSmoothing(smCurrent, smTarget)
  /\ UNCHANGED <<smTarget, audioVars, shaderVars, restVars>>

SmoothIdle ==
  /\ smCurrent = Zero
  /\ smTarget = Zero
  /\ smSteps = 0

\* ------------------------------------------------------------------------
\* analyzeAudioFile (services/voiceEngine.ts, lines 134-204)
\* ------------------------------------------------------------------------
\* sample values of channel 0
Samples == {R(-1, 2), Zero, R(1, 2), One}

\* quiet buffers of 20 samples: k samples at -0.1, then 0.1
LongBuffers ==
  {[i \in 1..20 |-> IF i <= k THEN R(-1, 10) ELSE R(1, 10)] : k \in {0, 10}}

\* decoded buffers: every one of up to MaxSamples samples, and the quiet ones
Buffers == UNION {[1..n -> Samples] : n \in 0..MaxSamples} \cup LongBuffers

SampleRates == {44100}

\* spacings between successive peaks, s
Spacings == {R(1, 4), R(3, 10), R(31, 100), R(1, 3), R(6, 7), R(6, 5), R(3, 2)}

\* the peak times that start at 0 and follow the spacings ds
RECURSIVE PeakTimes(_, _)
PeakTimes(start, ds) ==
  IF ds = <<>> THEN <<start>>
  ELSE <<start>> \o PeakTimes(RAdd(start, Head(ds)), Tail(ds))

PeakLists ==
  {PeakTimes(Zero, ds) : ds \in UNION {[1..n -> Spacings] : n \in 0..MaxIntervals}}

\* Math.min: NaN if either argument is NaN
MathMin(x, y) ==
  IF IsNaN(x) \/ IsNaN(y) THEN NaN ELSE IF RLt(y, x) THEN y ELSE x

RAbs(x) == <<Abs(x[1]), x[2]>>

\* lines 143-146: sumSquares over the samples i .. length
RECURSIVE SumSquares(_, _)
SumSquares(data, i) ==
  IF i > Len(data) THEN Zero
  ELSE RAdd(RMul(data[i], data[i]), SumSquares(data, i + 1))

\* line 147 without the square root: rms * rms = sumSquares / length
MeanSquare(data) == RDiv(SumSquares(data, 1), R(Len(data), 1))

\* mutant: the energy left unclamped
EnergySquared_Unclamped(ms) == RMul(ms, R(25, 1))

\* line 148, squared: energy * energy = min(1, rms * rms * 25), energy >= 0
EnergySquared(ms) == MathMin(One, RMul(ms, R(25, 1)))

bufferSize == 1024

\* lines 157-161: the largest |sample| of the 1-based samples lo .. hi
RECURSIVE BlockMax(_, _, _, _)
BlockMax(data, lo, hi, max) ==
  IF lo > hi THEN max
  ELSE BlockMax(data, lo + 1, hi,
                IF RGt(RAbs(data[lo]), max) THEN RAbs(data[lo]) ELSE max)

\* mutant: the threshold taken as rms itself
AboveThreshold_AtRms(max, ms) ==
  /\ ~IsNaN(ms)
  /\ RGt(RMul(max, max), ms)

\* line 162 with threshold = rms * 1.5 (line 154): max > threshold, decided on
\* the squares since neither side is negative; false when rms is NaN
AboveThreshold(max, ms) ==
  /\ ~IsNaN(ms)
  /\ RGt(RMul(max, max), RMul(ms, R(9, 4)))

\* lines 156-165: the peaks of the blocks that start at the 0-based sample i
RECURSIVE PeaksFrom(_, _, _, _)
PeaksFrom(data, sampleRate, ms, i) ==
  IF i >= Len(data) THEN <<>>
  ELSE (IF AboveThreshold(BlockMax(data, i + 1, Min2(i + bufferSize, Len(data)),
                                 Zero), ms)
        THEN <<R(i, sampleRate)>> ELSE <<>>)
       \o PeaksFrom(data, sampleRate, ms, i + bufferSize)

\* lines 170-176: the differences of successive peaks inside (0.3, 1.5)
RECURSIVE IntervalsOf(_, _)
IntervalsOf(pk, i) ==
  IF i > Len(pk) THEN <<>>
  ELSE (IF RGt(RSub(pk[i], pk[i - 1]), R(3, 10))
           /\ RLt(RSub(pk[i], pk[i - 1]), R(15, 10))
        THEN <<RSub(pk[i], pk[i - 1])>> ELSE <<>>)
       \o IntervalsOf(pk, i + 1)

\* line 178: intervals.reduce((a, b) => a + b) on a non-empty array
RECURSIVE SumOf(_)
SumOf(xs) == IF Len(xs) = 1 THEN xs[1] ELSE RAdd(xs[1], SumOf(Tail(xs)))

\* line 181: while (tempo < 70) tempo *= 2, given up after fuel iterations
RECURSIVE FoldUp(_, _)
FoldUp(tempo, fuel) ==
  IF ~RLt(tempo, R(70, 1)) THEN [tempo |-> tempo, done |-> TRUE]
  ELSE IF fuel = 0 THEN [tempo |-> tempo, done |-> FALSE]
  ELSE FoldUp(RMul(tempo, R(2, 1)), fuel - 1)

\* line 182: while (tempo > 180) tempo /= 2, given up after fuel iterations
RECURSIVE FoldDown(_, _)
FoldDown(tempo, fuel) ==
  IF ~RGt(tempo, R(180, 1)) THEN [tempo |-> tempo, done |-> TRUE]
  ELSE IF fuel = 0 THEN [tempo |-> tempo, done |-> FALSE]
  ELSE FoldDown(RDiv(tempo, R(2, 1)), fuel - 1)

\* mutant: the halving loop left out
Fold_UpOnly(up) == up

\* lines 181-182 in sequence
Fold(up) ==
  IF up.done THEN FoldDown(up.tempo, MaxFold) ELSE up

\* lines 168-184
TempoOf(pk) ==
  IF Len(pk) > 1 /\ IntervalsOf(pk, 2) # <<>>
  THEN Fold(FoldUp(RDiv(R(60, 1),
                        RDiv(SumOf(IntervalsOf(pk, 2)),
                             R(Len(IntervalsOf(pk, 2)), 1))),
                   MaxFold))
  ELSE [tempo |-> R(120, 1), done |-> TRUE]

\* line 190: sample i is a zero crossing
Crosses(data, i) ==
  \/ data[i][1] > 0 /\ data[i - 1][1] <= 0
  \/ data[i][1] < 0 /\ data[i - 1][1] >= 0

\* lines 188-193: zero crossings among the 1-based samples i .. length
RECURSIVE ZeroCrossings(_, _)
ZeroCrossings(data, i) ==
  IF i > Len(data) THEN 0
  ELSE (IF Crosses(data, i) THEN 1 ELSE 0) + ZeroCrossings(data, i + 1)

\* lines 194 and 202
SpectralCentroid(data) ==
  MathMin(One, RMul(RDiv(R(ZeroCrossings(data, 2), 1), R(Len(data), 1)),
                    R(10, 1)))

NoResult == [none |-> TRUE]

\* analyzeAudioFile(file) once the file is decoded: every statement of lines
\* 139-203 runs for every buffer, the function has no throw of its own.  rms
\* and energy are carried by their squares.
analyzeAudioFile ==
  \E data \in Buffers, sampleRate \in SampleRates :
    \E ms \in {MeanSquare(data)} :
    \E pk \in {PeaksFrom(data, sampleRate, ms, 0)} :
    \E t \in {TempoOf(pk)} :
      /\ fileCall' = "analysis"
      /\ channelData' = data
      /\ peaks' = pk
      /\ intervals' = IF Len(pk) > 1 THEN IntervalsOf(pk, 2) ELSE <<>>
      /\ folded' = t.done
      /\ fileOutcome' = "returned"
      /\ fileResult' = [tempo |-> t.tempo,
                        energySquared |-> EnergySquared(ms),
                        rmsSquared |-> ms,
                        spectralCentroid |-> SpectralCentroid(data)]
      /\ UNCHANGED <<audioVars, shaderVars, smoothVars, appVars, synthVars>>

\* the tempo estimation of lines 167-184 on the peaks of a longer file
estimateTempo ==
  \E pk \in PeakLists :
    \E t \in {TempoOf(pk)} :
      /\ fileCall' = "tempo"
      /\ peaks' = pk
      /\ intervals' = IF Len(pk) > 1 THEN IntervalsOf(pk, 2) ELSE <<>>
      /\ folded' = t.done
      /\ fileOutcome' = "returned"
      /\ fileResult' = [tempo |-> t.tempo]
      /\ channelData' = <<>>
      /\ UNCHANGED <<audioVars, shaderVars, smoothVars, appVars, synthVars>>

FileIdle ==
  /\ fileCall = "none"
  /\ channelData = <<>>
  /\ peaks = <<>>
  /\ intervals = <<>>
  /\ folded = TRUE
  /\ fileOutcome = "none"
  /\ fileResult = NoResult

\* ------------------------------------------------------------------------
\* App: the morph loop, the source switch, the file selection and the
\* streaming poll (App.tsx, lines 103-195, 257-317, 457).  No analysis of a
\* local file is present in this part, so the condition of line 153 is false
\* in every frame.
\* ------------------------------------------------------------------------
MorphSources == {"voice", "file", "spotify"}

\* ms between the frames of the morph loop
AppDts == {50}

\* the snapshot the analyser supplies to the morph loop while a source plays
AppSnapshots(len) == {Fill(len, 0, len, 255)}

\* mutant: the previous frame request is not cancelled
startMorphing_NoCancel ==
  /\ nextHandle' = nextHandle + 1
  /\ morphLoopRef' = nextHandle'
  /\ morphPending' = morphPending \cup {nextHandle'}

\* startMorphing(): cancels the handle in morphLoopRef, requests a frame and
\* stores its handle
startMorphing ==
  /\ nextHandle' = nextHandle + 1
  /\ morphLoopRef' = nextHandle'
  /\ morphPending' = (morphPending \ {morphLoopRef}) \cup {nextHandle'}

\* handleSourceChange(source) up to its await or its end; React re-renders
\* afterwards, which mounts the <audio> element iff the source is the file
handleSourceChange ==
  /\ mounted
  /\ switches < MaxSwitches
  /\ switches' = switches + 1
  /\ appStep' = "handleSourceChange"
  /\ \E source \in MorphSources :
       /\ morphSource' = source
       /\ audioRef' = (source = "file")
       /\ stream' = 0
       /\ liveStreams' = liveStreams \ {stream}
       /\ IF source = "voice"
          THEN /\ ensureContext
               /\ sourceNode' = 0
               /\ connected' = connected \ {sourceNode}
               /\ micPending' = micPending + 1
               /\ micCalls' = micCalls + 1
               /\ UNCHANGED <<nextNode, loopVars>>
          ELSE IF source = "file" /\ audioRef
          THEN /\ nextNode < MaxAttach
               /\ nextHandle < MaxHandles
               /\ ensureContext
               /\ nextNode' = nextNode + 1
               /\ sourceNode' = nextNode'
               /\ connected' = (connected \ {sourceNode}) \cup {nextNode'}
               /\ startMorphing
               /\ UNCHANGED <<micPending, micCalls>>
          ELSE /\ sourceNode' = 0
               /\ connected' = connected \ {sourceNode}
               /\ IF source = "spotify" /\ spotifyToken
                  THEN nextHandle < MaxHandles /\ startMorphing
                  ELSE UNCHANGED loopVars
               /\ UNCHANGED <<analyser, dataArray, nextNode, micPending, micCalls>>
  /\ UNCHANGED <<binCount, voiceVars, configVars, shaderVars, smoothVars,
                 fileVars, synthVars, mounted, spotifyToken, micNodes, nextStream,
                 micRejected, alerts, frameError, uncaught, restartTimers,
                 selects>>

\* mutant: attaching the microphone starts the smoother and the detector afresh
micGranted_ResetsState ==
  /\ micPending > 0
  /\ nextNode < MaxAttach
  /\ nextHandle < MaxHandles
  /\ micPending' = micPending - 1
  /\ nextStream' = nextStream + 1
  /\ stream' = nextStream'
  /\ liveStreams' = liveStreams \cup {nextStream'}
  /\ nextNode' = nextNode + 1
  /\ micNodes' = micNodes \cup {nextNode'}
  /\ sourceNode' = nextNode'
  /\ connected' = connected \cup {nextNode'}
  /\ startMorphing
  /\ appStep' = "micGranted"
  /\ state' = InitialState
  /\ lastBassEnergy' = Zero
  /\ beatTimer' = 0
  /\ UNCHANGED <<analyser, binCount, dataArray, now, ret, raw, call, hadSource,
                 onset, jump, onsetLog, sinceTrigger, trigDecay, frames,
                 configVars, shaderVars, smoothVars, fileVars, synthVars,
                 mounted, morphSource, audioRef, spotifyToken, micCalls,
                 micRejected, alerts, frameError, uncaught, switches, restartTimers,
                 selects>>

\* getUserMedia resolves: startMicrophone resumes at line 41, then
\* handleSourceChange resumes at line 181
micGranted ==
  /\ micPending > 0
  /\ nextNode < MaxAttach
  /\ nextHandle < MaxHandles
  /\ micPending' = micPending - 1
  /\ nextStream' = nextStream + 1
  /\ stream' = nextStream'
  /\ liveStreams' = liveStreams \cup {nextStream'}
  /\ nextNode' = nextNode + 1
  /\ micNodes' = micNodes \cup {nextNode'}
  /\ sourceNode' = nextNode'
  /\ connected' = connected \cup {nextNode'}
  /\ startMorphing
  /\ appStep' = "micGranted"
  /\ UNCHANGED <<analyser, binCount, dataArray, voiceVars, configVars, shaderVars,
                 smoothVars, fileVars, synthVars, mounted, morphSource, audioRef,
                 spotifyToken, micCalls, micRejected, alerts, frameError,
                 uncaught, switches, restartTimers,
                 selects>>

\* mutant: the catch block starts the loop all the same
micDenied_StartsLoop ==
  /\ micPending > 0
  /\ nextHandle < MaxHandles
  /\ micPending' = micPending - 1
  /\ micRejected' = micRejected + 1
  /\ alerts' = alerts + 1
  /\ startMorphing
  /\ appStep' = "micDenied"
  /\ UNCHANGED <<analyser, binCount, dataArray, nextNode, sourceNode, connected,
                 stream, liveStreams, voiceVars, configVars, shaderVars,
                 smoothVars, fileVars, synthVars, mounted, morphSource, audioRef,
                 spotifyToken, micNodes, nextStream, micCalls, frameError,
                 uncaught, switches, restartTimers,
                 selects>>

\* getUserMedia rejects: startMicrophone rejects and handleSourceChange
\* resumes in its catch block, line 183
micDenied ==
  /\ micPending > 0
  /\ micPending' = micPending - 1
  /\ micRejected' = micRejected + 1
  /\ alerts' = alerts + 1
  /\ appStep' = "micDenied"
  /\ UNCHANGED <<analyser, binCount, dataArray, nextNode, sourceNode, connected,
                 stream, liveStreams, voiceVars, configVars, shaderVars,
                 smoothVars, fileVars, synthVars, mounted, morphSource, audioRef,
                 spotifyToken, loopVars, micNodes, nextStream, micCalls,
                 frameError, uncaught, switches, restartTimers,
                 selects>>

\* loop(): one callback of the morph loop.  Either getAudioState returns and
\* the frame publishes the state and requests the next frame, or an error is
\* raised at line 75 and leaves loop, which has no try block.
morphFrame ==
  /\ appStep' = "loop"
  /\ \E h \in morphPending :
       \/ /\ nextHandle < MaxHandles
          /\ FrameCoreAt(AppSnapshots(binCount), MaxFrames, AppDts)
          /\ frameError' = FALSE
          /\ voiceState' = IF mounted THEN ret' ELSE voiceState
          /\ dirty' = (dirty \/ mounted)
          /\ nextHandle' = nextHandle + 1
          /\ morphLoopRef' = nextHandle'
          /\ morphPending' = (morphPending \ {h}) \cup {nextHandle'}
          /\ UNCHANGED uncaught
       \/ /\ analyser
          /\ frames < MaxFrames
          /\ frames' = frames + 1
          /\ frameError' = TRUE
          /\ uncaught' = uncaught + 1
          /\ morphPending' = morphPending \ {h}
          /\ UNCHANGED <<dataArray, state, lastBassEnergy, beatTimer, now, ret,
                         raw, call, hadSource, onset, jump, onsetLog,
                         sinceTrigger, trigDecay, voiceState, dirty, nextHandle,
                         morphLoopRef>>
  /\ UNCHANGED <<engineVars, configVars, variant, settings, requestRef,
                 renderVoice, renderSettings, lastTime, timeRef, perfNow,
                 lastStamp, rendered, silentRun, runStart, runDts, uniforms,
                 renders,
                 propChanges, smoothVars, fileVars, synthVars, mounted, morphSource,
                 audioRef, spotifyToken, micNodes, nextStream, micCalls,
                 micRejected, alerts, switches, restartTimers,
                 selects>>

\* onPlay of the <audio> element (line 457)
onPlay ==
  /\ mounted
  /\ audioRef
  /\ nextHandle < MaxHandles
  /\ startMorphing
  /\ appStep' = "onPlay"
  /\ UNCHANGED <<audioVars, shaderVars, smoothVars, fileVars, synthVars,
                 mounted, morphSource, audioRef, spotifyToken, micNodes,
                 nextStream, micCalls, micRejected, alerts, frameError,
                 uncaught, switches, restartTimers, selects>>

\* handleLocalAudioSelect up to its setTimeout (lines 257-278): the restart
\* is scheduled only while the file source is selected and the element exists
handleLocalAudioSelect ==
  /\ mounted
  /\ selects < MaxSelects
  /\ selects' = selects + 1
  /\ restartTimers' = IF morphSource = "file" /\ audioRef
                      THEN restartTimers + 1 ELSE restartTimers
  /\ appStep' = "handleLocalAudioSelect"
  /\ UNCHANGED <<audioVars, shaderVars, smoothVars, fileVars, synthVars,
                 mounted, morphSource, audioRef, spotifyToken, loopVars,
                 micNodes, nextStream, micCalls, micRejected, alerts,
                 frameError, uncaught, switches>>

\* the callback of the setTimeout of lines 272-277, 100 ms later
restartTimer ==
  /\ restartTimers > 0
  /\ restartTimers' = restartTimers - 1
  /\ appStep' = "restartTimer"
  /\ IF audioRef
     THEN /\ nextNode < MaxAttach
          /\ nextHandle < MaxHandles
          /\ ensureContext
          /\ nextNode' = nextNode + 1
          /\ sourceNode' = nextNode'
          /\ connected' = (connected \ {sourceNode}) \cup {nextNode'}
          /\ startMorphing
     ELSE UNCHANGED <<analyser, dataArray, nextNode, sourceNode, connected,
                      loopVars>>
  /\ UNCHANGED <<binCount, stream, liveStreams, micPending, voiceVars,
                 configVars, shaderVars, smoothVars, fileVars, synthVars,
                 mounted, morphSource, audioRef, spotifyToken, micNodes,
                 nextStream, micCalls, micRejected, alerts, frameError,
                 uncaught, switches, selects>>

\* the cleanup of lines 313-316 when App unmounts
unmount ==
  /\ mounted
  /\ mounted' = FALSE
  /\ audioRef' = FALSE
  /\ stream' = 0
  /\ liveStreams' = liveStreams \ {stream}
  /\ sourceNode' = 0
  /\ connected' = connected \ {sourceNode}
  /\ morphPending' = morphPending \ {morphLoopRef}
  /\ appStep' = "unmount"
  /\ UNCHANGED <<analyser, binCount, dataArray, nextNode, micPending, voiceVars,
                 configVars, shaderVars, smoothVars, fileVars, synthVars, morphSource,
                 spotifyToken, morphLoopRef, nextHandle, micNodes, nextStream,
                 micCalls, micRejected, alerts, frameError, uncaught, switches, restartTimers,
                 selects>>

AppStart ==
  /\ mounted = TRUE
  /\ audioRef = FALSE
  /\ morphLoopRef = 0
  /\ morphPending = {}
  /\ nextHandle = 0
  /\ micNodes = {}
  /\ nextStream = 0
  /\ micCalls = 0
  /\ micRejected = 0
  /\ alerts = 0
  /\ frameError = FALSE
  /\ uncaught = 0
  /\ switches = 0
  /\ restartTimers = 0
  /\ selects = 0
  /\ appStep = "none"

AppIdle ==
  /\ AppStart
  /\ morphSource = "voice"
  /\ spotifyToken = FALSE

\* ------------------------------------------------------------------------
\* The alternate producers of App.tsx: streaming poll and file-session blend
\* ------------------------------------------------------------------------
NoTrack == [none |-> TRUE]

\* Math.max: NaN if either argument is NaN
MathMax(x, y) ==
  IF IsNaN(x) \/ IsNaN(y) THEN NaN ELSE IF RLt(x, y) THEN y ELSE x

\* the % of JavaScript: the remainder has the sign of the dividend,
\* x % Infinity is x, x % 0 and Infinity % y are NaN
RMod(x, y) ==
  IF IsNaN(x) \/ IsNaN(y) \/ ~IsFinite(x) \/ y = Zero THEN NaN
  ELSE IF ~IsFinite(y) THEN x
  ELSE LET q == (Abs(x[1]) * y[2]) \div (x[2] * Abs(y[1]))
           r == RSub(RAbs(x), RMul(R(q, 1), RAbs(y)))
       IN  IF x[1] < 0 THEN RNeg(r) ELSE r

\* track.tempo || 120: 0 and NaN are falsy
TempoOr120(tempo) == IF tempo = Zero \/ IsNaN(tempo) THEN R(120, 1) ELSE tempo

\* (t % beatDuration) / beatDuration
BeatPhase(t, beatDuration) == RDiv(RMod(t, beatDuration), beatDuration)

\* Math.pow(Math.max(0, 1.0 - Math.abs(beatPhase - 0.5) * 2), 4)
Pulse(beatPhase) ==
  RPow(MathMax(Zero,
               RSub(One, RMul(RAbs(RSub(beatPhase, R(1, 2))), R(2, 1)))), 4)

\* the tracks fetchCurrentTrack can report
Tracks ==
  [energy : {Zero, R(1, 2), One}, danceability : {Zero, R(7, 10), One},
   tempo : {Zero, R(90, 1), R(128, 1)},
   progress_ms : {Zero, R(250, 1), R(61250, 1)},
   isPlaying : BOOLEAN]

\* lines 292-294 of the poll
PollPulse(track) ==
  Pulse(BeatPhase(track.progress_ms,
                  RDiv(R(60000, 1), TempoOr120(track.tempo))))

PollState_AlwaysPlaying(track, pulse) ==
  [volume |-> track.energy, pitch |-> track.danceability,
   bass |-> RMul(track.energy, R(9, 10)),
   mid |-> RMul(track.energy, R(6, 10)),
   treble |-> RMul(track.danceability, R(4, 10)),
   silence |-> FALSE, beatIntensity |-> pulse]

\* lines 296-304: the VoiceState made from the track
PollState(track, pulse) ==
  [volume |-> IF track.isPlaying THEN track.energy ELSE Zero,
   pitch |-> track.danceability,
   bass |-> RMul(track.energy, R(9, 10)),
   mid |-> RMul(track.energy, R(6, 10)),
   treble |-> RMul(track.danceability, R(4, 10)),
   silence |-> ~track.isPlaying,
   beatIntensity |-> IF track.isPlaying THEN pulse ELSE Zero]

\* the track playing while App polls: half energy, at the top of its beat
AppTrack ==
  [energy |-> R(1, 2), danceability |-> R(7, 10), tempo |-> R(128, 1),
   progress_ms |-> R(61250, 1), isPlaying |-> TRUE]

\* one firing of the poll inside App: the effect of lines 286-310 is active
\* only with a token and morphSource 'spotify'; setCurrentVoiceState hands
\* the synthesized state to the preview
spotifyPoll ==
  /\ mounted
  /\ spotifyToken
  /\ morphSource = "spotify"
  /\ synthCall' = "poll"
  /\ currentTrack' = AppTrack
  /\ synthPulse' = PollPulse(AppTrack)
  /\ synthState' = PollState(AppTrack, synthPulse')
  /\ voiceState' = synthState'
  /\ dirty' = TRUE
  /\ appStep' = "poll"
  /\ UNCHANGED <<audioVars, variant, settings, requestRef, renderVoice,
                 renderSettings, lastTime, timeRef, perfNow, lastStamp,
                 rendered, silentRun, runStart, runDts, uniforms, renders,
                 propChanges, smoothVars, fileVars, mounted, morphSource,
                 audioRef, spotifyToken, loopVars, micNodes, nextStream,
                 micCalls, micRejected, alerts, frameError, uncaught, switches,
                 restartTimers, selects>>

\* the poll of lines 288-306, one firing of the 1500 ms interval; the effect
\* runs only while morphSource is 'spotify' (line 287)
poll ==
  /\ synthCall # "blend"
  /\ \E track \in Tracks \cup {NoTrack} :
       /\ currentTrack' = track
       /\ IF track = NoTrack
          THEN /\ synthCall' = "noTrack"
               /\ UNCHANGED <<synthPulse, synthState>>
          ELSE /\ synthCall' = "poll"
               /\ synthPulse' = PollPulse(track)
               /\ synthState' = PollState(track, synthPulse')
  /\ UNCHANGED <<audioVars, shaderVars, smoothVars, fileVars, appVars>>

\* the live states getAudioState hands to the blend (512-bin analyser)
BaseStates ==
  {[volume |-> Zero, pitch |-> Zero, bass |-> Zero, mid |-> Zero,
    treble |-> Zero, silence |-> TRUE, beatIntensity |-> Zero],
   [volume |-> R(1, 2), pitch |-> R(1, 4), bass |-> R(3, 4), mid |-> R(1, 2),
    treble |-> R(1, 10), silence |-> FALSE, beatIntensity |-> R(1, 5)],
   [volume |-> One, pitch |-> One, bass |-> One, mid |-> One,
    treble |-> One, silence |-> FALSE, beatIntensity |-> One]}

\* the offline analyses of the file in session
Analyses ==
  [tempo : {Zero, R(70, 1), R(180, 1)},
   energy : {Zero, R(1, 2), One},
   spectralCentroid : {Zero, R(3, 10), One}]

\* audioRef.current.currentTime, in seconds
CurrentTimes == {Zero, R(1, 4), R(33, 10)}

\* lines 155-158
BlendPulse(fa, currentTime) ==
  Pulse(BeatPhase(RMul(currentTime, R(1000, 1)),
                  RDiv(R(60000, 1), fa.tempo)))

\* lines 160-165
BlendState(baseState, fa, pulse) ==
  [baseState EXCEPT
     !.volume = RMul(baseState.volume,
                     RAdd(R(1, 2), RMul(fa.energy, R(1, 2)))),
     !.pitch = RMul(baseState.pitch,
                    RAdd(R(7, 10), RMul(fa.spectralCentroid, R(3, 10)))),
     !.beatIntensity = MathMax(baseState.beatIntensity, pulse)]

\* the file branch of one morph frame, lines 153-165, taken only while
\* morphSource is 'file'
blendFrame ==
  /\ synthCall \in {"none", "blend"}
  /\ \E baseState \in BaseStates, fa \in Analyses, currentTime \in CurrentTimes :
       /\ synthCall' = "blend"
       /\ synthPulse' = BlendPulse(fa, currentTime)
       /\ synthState' = BlendState(baseState, fa, synthPulse')
  /\ UNCHANGED currentTrack
  /\ UNCHANGED <<audioVars, shaderVars, smoothVars, fileVars, appVars>>

SynthIdle ==
  /\ synthCall = "none"
  /\ currentTrack = NoTrack
  /\ synthPulse = Zero
  /\ synthState = [volume |-> Zero, pitch |-> Zero, bass |-> Zero,
                   mid |-> Zero, treble |-> Zero, silence |-> TRUE,
                   beatIntensity |-> Zero]

RestIdle == FileIdle /\ AppIdle /\ SynthIdle

\* ------------------------------------------------------------------------
\* Specifications
\* ------------------------------------------------------------------------
Init ==
  /\ VoiceInit
  /\ variant = "settings"
  /\ settings = SettingsOf(R(1, 2))
  /\ ShaderInit
  /\ SmoothIdle
  /\ RestIdle

Next ==
  \/ getAudioState
  \/ startAudioElement
  \/ stopAudioEngine
  \/ updateBeat

Spec == Init /\ [][Next]_vars

NextSilence ==
  \/ getAudioStateEdge
  \/ startAudioElement
  \/ stopAudioEngine

SpecSilence == Init /\ [][NextSilence]_vars

InitShader ==
  /\ VoiceInit
  /\ binCount = 100
  /\ variant \in Variants
  /\ settings = SettingsOf(R(1, 2))
  /\ ShaderInit
  /\ SmoothIdle
  /\ RestIdle

NextShader ==
  \/ setCurrentVoiceState
  \/ updateEnv
  \/ updateVis
  \/ useEffect
  \/ render

SpecShader == InitShader /\ [][NextShader]_vars

InitSmooth ==
  /\ VoiceInit
  /\ binCount = 100
  /\ variant = "settings"
  /\ settings = SettingsOf(R(1, 2))
  /\ ShaderInit
  /\ smCurrent \in SmoothVals
  /\ smTarget \in SmoothVals
  /\ smSteps = 0
  /\ RestIdle

NextSmooth == smooth

SpecSmooth == InitSmooth /\ [][NextSmooth]_vars

NextFile ==
  \/ analyzeAudioFile
  \/ estimateTempo

SpecFile == Init /\ [][NextFile]_vars

\* App as mounted: with a token in the URL hash the effect of lines 136-146
\* selects the streaming source
InitApp ==
  /\ VoiceInit
  /\ binCount = 100
  /\ variant = "settings"
  /\ settings = SettingsOf(R(1, 2))
  /\ ShaderInit
  /\ SmoothIdle
  /\ FileIdle
  /\ SynthIdle
  /\ AppStart
  /\ \/ spotifyToken = FALSE /\ morphSource = "voice"
     \/ spotifyToken = TRUE /\ morphSource = "spotify"

NextApp ==
  \/ handleSourceChange
  \/ micGranted
  \/ micDenied
  \/ morphFrame
  \/ onPlay
  \/ handleLocalAudioSelect
  \/ restartTimer
  \/ spotifyPoll
  \/ unmount

SpecApp == InitApp /\ [][NextApp]_vars

NextSynth ==
  \/ poll
  \/ blendFrame

SpecSynth == Init /\ [][NextSynth]_vars

\* ------------------------------------------------------------------------
\* Properties of the voice engine
\* ------------------------------------------------------------------------
NumericFields(v) == {v.volume, v.pitch, v.bass, v.mid, v.treble, v.beatIntensity}

\* a getAudioState call that analysed a snapshot happens in this step
AnalysedStep == frames' = frames + 1 /\ call' = "analysed"

C4_Refractory ==
  [][AnalysedStep =>
       /\ onset' => \A i \in 1..Len(onsetLog) : now' - onsetLog[i] > 200
       /\ (jump' /\ onsetLog # <<>> /\ now' - onsetLog[Len(onsetLog)] <= 200) =>
            /\ ~onset'
            /\ beatTimer' = beatTimer
            /\ onsetLog' = onsetLog]_vars

\* two threshold-exceeding jumps 50 ms apart, the second one suppressed
C4_Witness ==
  /\ jump
  /\ ~onset
  /\ Len(onsetLog) = 1
  /\ now - onsetLog[1] = 50

\* C5: silence is decided on the raw mean magnitude of the current frame
\* alone: the returned silence is true iff rawVol < 0.005, whatever the
\* smoothed volume is; a mean of 0.0049 is silent, a mean of 0.0051 is not.
C5_SilenceOnRawVolume ==
  call = "analysed" =>
    /\ ret.silence <=> RLt(raw.rawVol, R(5, 1000))
    /\ raw.rawVol = R(25, 5100) => ret.silence
    /\ raw.rawVol = R(26, 5100) => ~ret.silence

\* a frame of mean 0.0049 right after a loud one: silent although the smoothed
\* volume is far above the threshold
C5_Witness ==
  /\ call = "analysed"
  /\ raw.rawVol = R(25, 5100)
  /\ ret.silence
  /\ RGt(ret.volume, R(1, 100))

\* C6: getAudioState called while no source node is attached (never started, or
\* detached by stopAudioEngine) returns a VoiceState with all numeric fields 0
\* and silence = true.  Stated for snapshots long enough for every band to
\* hold a bin.
C6_DefaultWhenDetached ==
  (call # "none" /\ ~hadSource /\ binCount >= 10) =>
    /\ \A x \in NumericFields(ret) : x = Zero
    /\ ret.silence

\* the 100-bin snapshot holding 1.0 in bin 15 and 0.0 elsewhere was analysed
SpikeAnalysed ==
  /\ call = "analysed"
  /\ binCount = 100
  /\ dataArray = Fill(100, 15, 16, 255)

\* C10 as stated: that snapshot yields rawVolume 0.01, rawBass about 0.1,
\* rawMid 0, rawTreble 0, peak bin 15 and silence = false.
C10_SpikeInBass ==
  SpikeAnalysed =>
    /\ raw.rawVol = R(1, 100)
    /\ RLe(R(9, 100), raw.rawBass) /\ RLe(raw.rawBass, R(11, 100))
    /\ raw.rawMid = Zero
    /\ raw.rawTreble = Zero
    /\ raw.peakFreq = 15
    /\ ~ret.silence

\* C10 amended: that snapshot yields rawVolume 0.01, rawBass 0, rawMid 1/30
\* (bin 15 lies in the mid band, bins 10..39), rawTreble 0, peak bin 15 and
\* silence = false.
C10_SpikeInMid ==
  SpikeAnalysed =>
    /\ raw.rawVol = R(1, 100)
    /\ raw.rawBass = Zero
    /\ raw.rawMid = R(1, 30)
    /\ raw.rawTreble = Zero
    /\ raw.peakFreq = 15
    /\ ~ret.silence

C10_Witness == SpikeAnalysed /\ frames = 1

\* ------------------------------------------------------------------------
\* Properties of the synthetic clock
\* ------------------------------------------------------------------------
\* C7: topological lock: over N consecutive rendered frames whose governing
\* VoiceState has silence = true, whatever their dt, the synthetic clock keeps
\* the value it had before them.
C7_TopologicalLock == silentRun > 0 => timeRef = runStart

\* a clock that had advanced, then held over silent frames of different dt
C7_Witness ==
  /\ silentRun >= 2
  /\ Cardinality(runDts) >= 2
  /\ RGt(timeRef, Zero)

\* C8: the synthetic clock never decreases over any sequence of rendered
\* frames, for viscosity in [0,1] and any frame timestamps, and it changes
\* only in frames whose governing VoiceState has silence = false.
C8_ClockMonotonic ==
  [][/\ RLe(timeRef, timeRef')
     /\ timeRef' # timeRef => (rendered' /\ ~renderVoice.silence)]_vars

\* ------------------------------------------------------------------------
\* Properties of the temporal smoother
\* ------------------------------------------------------------------------
RiseStep(gap) == RSub(applyMorphicSmoothing(Zero, gap), Zero)

FallStep(gap) == RSub(gap, applyMorphicSmoothing(gap, Zero))

\* C9: with the target held constant, each smoothing update moves the value
\* toward the target without crossing it, by 0.04 of the remaining gap when
\* target > current and by 0.02 of it otherwise; for the same gap magnitude
\* a rise step is strictly larger than a fall step.
C9_MonotonicSmoothing ==
  [][smSteps' = smSteps + 1 =>
       /\ smTarget' = smTarget
       /\ RGt(smTarget, smCurrent) =>
            /\ RLt(smCurrent, smCurrent') /\ RLe(smCurrent', smTarget)
            /\ RSub(smCurrent', smCurrent)
                 = RMul(RSub(smTarget, smCurrent), R(4, 100))
            /\ RGt(RiseStep(RSub(smTarget, smCurrent)),
                   FallStep(RSub(smTarget, smCurrent)))
       /\ RLt(smTarget, smCurrent) =>
            /\ RLt(smCurrent', smCurrent) /\ RLe(smTarget, smCurrent')
            /\ RSub(smCurrent, smCurrent')
                 = RMul(RSub(smCurrent, smTarget), R(2, 100))
            /\ RGt(RiseStep(RSub(smCurrent, smTarget)),
                   FallStep(RSub(smCurrent, smTarget)))
       /\ smTarget = smCurrent => smCurrent' = smCurrent]_vars

\* three updates toward a higher target, still below it
C9_Witness ==
  /\ smSteps = 3
  /\ smTarget = One
  /\ RGt(smCurrent, R(1, 5))
  /\ RLt(smCurrent, smTarget)

\* ------------------------------------------------------------------------
\* Properties of the offline analysis
\* ------------------------------------------------------------------------
\* 60 / avgInterval of the retained intervals
BaseTempo == RDiv(R(60, 1), RDiv(SumOf(intervals), R(Len(intervals), 1)))

\* t is base doubled a times, a the least count that reaches 70, then halved b
\* times, b the least count that reaches 180
FoldedFrom(base, t) ==
  \E a \in 0..MaxFold, b \in 0..MaxFold :
    /\ t = RDiv(RMul(base, RPow(R(2, 1), a)), RPow(R(2, 1), b))
    /\ RLe(R(70, 1), RMul(base, RPow(R(2, 1), a)))
    /\ a > 0 => RLt(RMul(base, RPow(R(2, 1), a - 1)), R(70, 1))
    /\ RLe(t, R(180, 1))
    /\ b > 0 => RGt(RMul(t, R(2, 1)), R(180, 1))

\* C11: whenever at least one inter-peak interval is retained the returned
\* tempo is 60/avgInterval doubled while below 70 and halved while above 180,
\* the folding loops end and the tempo lies in [70, 180]; peaks 1.2 s apart
\* give 100 BPM and peaks 0.25 s apart give 120 BPM.
C11_TempoFolding ==
  fileCall # "none" =>
    /\ intervals # <<>> =>
         /\ folded
         /\ FoldedFrom(BaseTempo, fileResult.tempo)
         /\ RLe(R(70, 1), fileResult.tempo)
         /\ RLe(fileResult.tempo, R(180, 1))
    /\ peaks = PeakTimes(Zero, <<R(6, 5), R(6, 5)>>) =>
         fileResult.tempo = R(100, 1)
    /\ peaks = PeakTimes(Zero, <<R(1, 4), R(1, 4)>>) =>
         fileResult.tempo = R(120, 1)

\* three peaks 1.2 s apart: both intervals retained, 50 BPM doubled once
C11_Witness ==
  /\ fileCall = "tempo"
  /\ peaks = PeakTimes(Zero, <<R(6, 5), R(6, 5)>>)
  /\ Len(intervals) = 2
  /\ fileResult.tempo = R(100, 1)

\* C12: analyzeAudioFile given a decoded buffer with zero samples fails with
\* an error surfaced to its caller and returns no AudioFileAnalysis record.
C12_EmptyBufferFails ==
  (fileCall = "analysis" /\ Len(channelData) = 0) =>
    /\ fileOutcome = "threw"
    /\ fileResult = NoResult

MorphFrameStep == frames' = frames + 1

\* C14: after the unmount cleanup returned no further callback of the morph
\* loop fires.
C14_NoFrameAfterStop == [][MorphFrameStep => mounted]_vars

\* the source nodes and streams that belong to the selected source
NodesOf(source) ==
  IF source = "voice" THEN micNodes
  ELSE IF source = "file" THEN connected \ micNodes
  ELSE {}

\* C15: at every frame at most one source node is connected to the analyser,
\* it belongs to the most recently selected source, and every microphone
\* stream that is not the selected source has its tracks stopped.
C15_OneSourceAtFrames ==
  [][MorphFrameStep =>
       /\ Cardinality(connected) <= 1
       /\ connected \subseteq NodesOf(morphSource)
       /\ liveStreams \subseteq (IF morphSource = "voice" THEN {stream} ELSE {})]_vars

\* C17: an error raised inside a frame of the morph loop does not reach the
\* scheduler, the loop still requests its next frame, and the published
\* VoiceState stays the one of the frame before.
C17_ErrorCaughtAtFrameEdge ==
  [][(MorphFrameStep /\ frameError') =>
       /\ uncaught' = uncaught
       /\ morphPending' # {}
       /\ voiceState' = voiceState]_vars

\* C18: a rejected microphone attach is surfaced once (one alert per rejected
\* call), is not retried (no further startMicrophone call) and starts no
\* morph loop.
C18_MicFailureSurfacedOnce ==
  [][(micRejected' = micRejected + 1) =>
       /\ alerts' = alerts + 1
       /\ alerts' = micRejected'
       /\ micCalls' = micCalls
       /\ micPending' = micPending - 1
       /\ UNCHANGED loopVars]_vars

\* the only attach was rejected: one alert, nothing pending, no loop
C18_Witness ==
  /\ appStep = "micDenied"
  /\ micCalls = 1
  /\ micRejected = 1
  /\ alerts = 1
  /\ micPending = 0
  /\ morphPending = {}

\* C16: every VoiceState made by the streaming poll or by the file-session
\* blend has its six numeric fields in [0,1] when energy, danceability, file
\* energy and spectralCentroid are in [0,1] and tempo and progress are not
\* negative; the beat pulse is in [0,1]; a track that is not playing gives
\* silence = true, volume = 0 and beatIntensity = 0
C16_SynthInUnit ==
  synthCall \in {"poll", "blend"} =>
    /\ \A x \in NumericFields(synthState) : InUnit(x)
    /\ InUnit(synthPulse)
    /\ (synthCall = "poll" /\ ~currentTrack.isPlaying) =>
         /\ synthState.silence
         /\ synthState.volume = Zero
         /\ synthState.beatIntensity = Zero

\* a paused track at the top of its beat, with full energy
C16_Witness ==
  /\ synthCall = "poll"
  /\ ~currentTrack.isPlaying
  /\ currentTrack.energy = One
  /\ synthPulse = One
  /\ synthState.volume = Zero
  /\ synthState.beatIntensity = Zero

\* the uniforms the claim names for a frame of voice state v under settings st
ClaimedVector(time, v, st) ==
  [time |-> time, res |-> Viewport,
   vol |-> RMul(v.volume, st.visual.globalIntensity),
   pit |-> RMul(v.pitch, st.visual.globalIntensity),
   bas |-> RMul(v.bass, st.visual.globalIntensity),
   mid |-> RMul(v.mid, st.visual.globalIntensity),
   tre |-> RMul(v.treble, st.visual.globalIntensity),
   beat |-> RMul(RMul(v.beatIntensity, st.visual.globalIntensity),
                 st.beat.amplitude),
   turb |-> st.environment.turbulence,
   visc |-> st.environment.viscosity,
   flow |-> st.environment.flow,
   cshift |-> st.visual.colorShift,
   fidelity |-> st.visual.fidelity]

\* C19: the vector a frame hands to the renderer is volume, pitch, bass, mid
\* and treble each times globalIntensity, beatIntensity times globalIntensity
\* and the beat amplitude, turbulence, viscosity, flow, colorShift and
\* fidelity as configured, with the clock value and the viewport size
C19_OutputVector ==
  rendered => uniforms = ClaimedVector(timeRef, renderVoice, renderSettings)

\* C20: in a frame with beat detection enabled an onset fires iff
\* rawBass - lastBassEnergy > 0.4 / sensitivity and more than 200 ms have
\* passed since the last onset timestamp; firing sets that timestamp to the
\* clock read of the frame; after every analysed frame, enabled or not,
\* lastBassEnergy is that frame's rawBass; and a frame that fires also fires
\* under every higher sensitivity, other inputs equal
C20_OnsetRule ==
  [][AnalysedStep =>
       /\ lastBassEnergy' = raw'.rawBass
       /\ beatSettings.enabled =>
            /\ onset' <=>
                 /\ RGt(RSub(raw'.rawBass, lastBassEnergy),
                        RDiv(R(4, 10), beatSettings.sensitivity))
                 /\ now' - beatTimer > 200
            /\ onset' => beatTimer' - now' \in Jitter
            /\ \A s \in Sensitivities :
                 (onset' /\ RGt(s, beatSettings.sensitivity)) =>
                   BeatDetect([beatSettings EXCEPT !.sensitivity = s],
                              raw'.rawBass, lastBassEnergy, state.beatIntensity,
                              beatTimer, now', now').onset]_vars

\* an onset on a bass jump of 0.5 at sensitivity 1
C20_Witness ==
  /\ call = "analysed"
  /\ beatSettings.enabled
  /\ beatSettings.sensitivity = One
  /\ onset
  /\ raw.rawBass = R(1, 2)
  /\ lastBassEnergy = R(1, 2)
  /\ beatTimer = now

\* C21: in every analysed frame with beat detection disabled the returned
\* beatIntensity is 0, no onset is recorded and the last-onset timestamp is
\* unchanged, and lastBassEnergy still becomes that frame's rawBass
C21_DisabledFrame ==
  [][(AnalysedStep /\ ~beatSettings.enabled) =>
       /\ ret'.beatIntensity = Zero
       /\ state'.beatIntensity = Zero
       /\ ~onset'
       /\ onsetLog' = onsetLog
       /\ beatTimer' = beatTimer
       /\ lastBassEnergy' = raw'.rawBass]_vars

\* a disabled frame on a full bass jump, long after the last onset timestamp
C21_Witness ==
  /\ call = "analysed"
  /\ ~beatSettings.enabled
  /\ raw.rawBass = One
  /\ lastBassEnergy = One
  /\ ~onset
  /\ beatTimer = 0
  /\ now > REFRACTORY
  /\ ret.beatIntensity = Zero

\* the bytes that occur in a snapshot
ByteValues(data) == {data[i] : i \in DOMAIN data}

\* the sum of the bytes of the 0-based bins lo .. hi-1, counted value by value
RECURSIVE SumByValue(_, _, _, _)
SumByValue(vals, data, lo, hi) ==
  IF vals = {} THEN 0
  ELSE LET v == CHOOSE x \in vals : TRUE
       IN v * Cardinality({i \in (lo + 1)..hi : data[i] = v})
          + SumByValue(vals \ {v}, data, lo, hi)

\* mean magnitude of the 0-based bins lo .. hi-1: their sum over their count
MeanOfBins(data, lo, hi) ==
  RDiv(R(SumByValue(ByteValues(data), data, lo, hi), 255), R(hi - lo, 1))

\* the first 0-based index holding the largest byte, 0 for no bins
FirstMaxIndex(data) ==
  IF Len(data) = 0 THEN 0
  ELSE CHOOSE i \in 0..(Len(data) - 1) :
         /\ \A j \in DOMAIN data : data[j] <= data[i + 1]
         /\ \A j \in 1..i : data[j] < data[i + 1]

\* C22: for a snapshot of N bins with bEnd = floor(0.1 N) and mEnd =
\* floor(0.4 N), raw bass, mid and treble are the mean magnitudes of the bins
\* [0,bEnd), [bEnd,mEnd) and [mEnd,N), each sum divided by its own bin count;
\* the bands are disjoint and cover every bin; raw volume is the mean of all
\* bins; the peak index is the first index holding the largest magnitude
\* (0 for an all-zero snapshot) and raw pitch is peak index / N
C22_BandMeans ==
  call = "analysed" =>
    LET N == Len(dataArray)
        bEnd == N \div 10
        mEnd == (4 * N) \div 10
    IN /\ 0 <= bEnd /\ bEnd <= mEnd /\ mEnd <= N
       /\ raw.rawBass = MeanOfBins(dataArray, 0, bEnd)
       /\ raw.rawMid = MeanOfBins(dataArray, bEnd, mEnd)
       /\ raw.rawTreble = MeanOfBins(dataArray, mEnd, N)
       /\ raw.rawVol = MeanOfBins(dataArray, 0, N)
       /\ raw.peakFreq = FirstMaxIndex(dataArray)
       /\ raw.rawPitch = RDiv(R(FirstMaxIndex(dataArray), 1), R(N, 1))

\* 100 bins of which the first five are at full scale: the largest magnitude
\* occurs five times and the peak index is the first of them
C22_Witness ==
  /\ call = "analysed"
  /\ Len(dataArray) = 100
  /\ dataArray = Fill(100, 0, 5, 255)
  /\ raw.rawBass = R(1, 2)
  /\ raw.rawMid = Zero
  /\ raw.rawVol = R(1, 20)
  /\ raw.peakFreq = 0
  /\ raw.rawPitch = Zero

\* some sample of the buffer exceeds 1.5 * rms in absolute value
SomeSampleAbove(data, meanSquare) ==
  \E i \in DOMAIN data :
    RGt(RMul(data[i], data[i]), RMul(meanSquare, R(9, 4)))

\* C23: analyzeAudioFile returns tempo 120 whenever fewer than two peaks
\* qualify and whenever no inter-peak interval is retained; a window of up to
\* 1024 samples is a peak, stamped with its start time, iff its largest
\* absolute sample exceeds 1.5 * rms
C23_DefaultTempo ==
  fileCall # "none" =>
    /\ (Len(peaks) < 2 \/ intervals = <<>>) => fileResult.tempo = R(120, 1)
    /\ (fileCall = "analysis" /\ Len(channelData) <= bufferSize) =>
         peaks = IF SomeSampleAbove(channelData, fileResult.rmsSquared)
                 THEN <<Zero>> ELSE <<>>

\* three peaks, 0.25 s and 1.5 s apart: no interval retained
C23_Witness ==
  /\ fileCall = "tempo"
  /\ peaks = PeakTimes(Zero, <<R(1, 4), R(3, 2)>>)
  /\ intervals = <<>>
  /\ fileResult.tempo = R(120, 1)

\* the differences of successive peaks from the i-th on that lie in the
\* closed range [0.3, 1.5]
RECURSIVE ClosedRangeIntervals(_, _)
ClosedRangeIntervals(pk, i) ==
  IF i > Len(pk) THEN <<>>
  ELSE (IF RLe(R(3, 10), RSub(pk[i], pk[i - 1]))
           /\ RLe(RSub(pk[i], pk[i - 1]), R(15, 10))
        THEN <<RSub(pk[i], pk[i - 1])>> ELSE <<>>)
       \o ClosedRangeIntervals(pk, i + 1)

\* C24: an interval between consecutive peaks is retained iff it lies in the
\* closed range [0.3 s, 1.5 s]; intervals of exactly 0.3 s and exactly 1.5 s
\* are retained, every interval outside the range is discarded
C24_ClosedRange ==
  fileCall # "none" => intervals = ClosedRangeIntervals(peaks, 2)

\* the zero crossings of a buffer: adjacent pairs going from <= 0 to > 0 or
\* from >= 0 to < 0
CrossingCount(data) ==
  Cardinality({i \in 2..Len(data) :
                 \/ RGt(data[i], Zero) /\ RLe(data[i - 1], Zero)
                 \/ RLt(data[i], Zero) /\ RLe(Zero, data[i - 1])})

\* C25: for every non-empty buffer of samples in [-1,1] the returned energy
\* is min(1, rms * 5) and spectralCentroid is min(1, crossingCount /
\* sampleCount * 10), both in [0,1]; energy and rms are compared by their
\* squares
C25_EnergyAndCentroid ==
  (fileCall = "analysis" /\ Len(channelData) >= 1) =>
    /\ fileResult.rmsSquared = MeanSquare(channelData)
    /\ fileResult.energySquared =
         (IF RLt(RMul(fileResult.rmsSquared, R(25, 1)), One)
          THEN RMul(fileResult.rmsSquared, R(25, 1)) ELSE One)
    /\ InUnit(fileResult.energySquared)
    /\ fileResult.spectralCentroid =
         (IF CrossingCount(channelData) * 10 < Len(channelData)
          THEN R(CrossingCount(channelData) * 10, Len(channelData)) ELSE One)
    /\ InUnit(fileResult.spectralCentroid)

\* 20 samples at 0.1 in absolute value with one crossing: rms 0.1, energy 0.5
\* (square 0.25) and spectralCentroid 0.5, neither clamped
C25_Witness ==
  /\ fileCall = "analysis"
  /\ Len(channelData) = 20
  /\ fileResult.rmsSquared = R(1, 100)
  /\ fileResult.energySquared = R(1, 4)
  /\ fileResult.spectralCentroid = R(1, 2)

\* a frame of the preview that takes MorphicSettings is rendered in this step,
\* later than an earlier frame, with a voice state that is not silent
LaterLoudFrame ==
  /\ renders' = renders + 1
  /\ renders >= 1
  /\ lastStamp' > lastStamp
  /\ variant = "settings"
  /\ ~renderVoice.silence

\* seconds from the previous frame's timestamp to this frame's
SincePreviousFrame == R(lastStamp' - lastStamp, 1000)

\* C26: in a non-silent frame the synthetic clock advances by exactly
\* dt * 1 / (viscosity + 0.1), dt being the real time elapsed since the
\* previous frame; the advance is finite for viscosity 0 and, for the same
\* dt, strictly smaller for every higher viscosity
C26_ClockAdvance ==
  [][LaterLoudFrame =>
       /\ timeRef' =
            RAdd(timeRef,
                 RMul(SincePreviousFrame,
                      RDiv(One, RAdd(renderSettings.environment.viscosity,
                                     R(1, 10)))))
       /\ IsFinite(timeRef')
       /\ \A v \in Viscosities :
            RGt(v, renderSettings.environment.viscosity) =>
              RLt(RMul(SincePreviousFrame, RDiv(One, RAdd(v, R(1, 10)))),
                  RSub(timeRef', timeRef))]_vars

\* the effect of the preview runs in this step
EffectStep == dirty /\ ~dirty'

\* C30: re-initialising the render loop while the preview stays mounted
\* leaves the synthetic clock unchanged: no prop change and no run of the
\* effect alters it, it is never reset to 0, and the first frame after the
\* re-initialisation starts from the value the last frame before it reached
C30_ClockSurvivesReinit ==
  [][/\ EffectStep => timeRef' = timeRef
     /\ renders' = renders => timeRef' = timeRef
     /\ (renders' = renders + 1 /\ ~rendered) =>
          timeRef' = Advance(timeRef, renderVoice.silence,
                             R(lastStamp' - lastTime, 1000), variant,
                             renderSettings.environment.viscosity)]_vars

\* the effect has re-run after the clock had advanced, and its first frame is
\* still to come
C30_Witness ==
  /\ renders >= 1
  /\ propChanges >= 1
  /\ ~dirty
  /\ ~rendered
  /\ requestRef
  /\ RGt(timeRef, Zero)

\* a step of a source switch: stopAudioEngine, startAudioElement or either
\* half of startMicrophone
SwitchStep ==
  \/ switches' = switches + 1
  \/ sourceNode' # sourceNode
  \/ stream' # stream

\* C27: switching sources leaves lastBassEnergy, the last-onset timestamp,
\* the current beatIntensity and the five smoothed values unchanged, and an
\* analyser that exists stays alive with its buffer
C27_SwitchKeepsState ==
  [][SwitchStep =>
       /\ state' = state
       /\ lastBassEnergy' = lastBassEnergy
       /\ beatTimer' = beatTimer
       /\ analyser => (analyser' /\ dataArray' = dataArray)
       /\ binCount' = binCount]_vars

\* the microphone attached a second time, after a frame had moved the
\* smoothed values and the bass memory away from 0
C27_Witness ==
  /\ appStep = "micGranted"
  /\ nextStream = 2
  /\ sourceNode # 0
  /\ RGt(state.volume, Zero)
  /\ RGt(state.pitch, Zero) \/ RGt(state.bass, Zero)
  /\ RGt(lastBassEnergy, Zero)

\* C28: at every moment at most one frame callback of the morph loop is
\* pending, whatever the order of the startMorphing calls (source switch,
\* microphone grant, onPlay, the delayed restart after a file selection), and
\* it is the one morphLoopRef names
C28_OnePendingFrame ==
  /\ Cardinality(morphPending) <= 1
  /\ morphPending \subseteq {morphLoopRef}

\* the delayed restart called startMorphing after a loop had been started
C28_Witness ==
  /\ appStep = "restartTimer"
  /\ nextHandle >= 2
  /\ morphPending = {morphLoopRef}
  /\ morphLoopRef = nextHandle

\* C29: while the streaming source is selected with a valid token, the
\* VoiceState that reaches the renderer is the one synthesized from the polled
\* track: a frame of the morph loop between two polls does not replace it by
\* the state getAudioState derives from the analyser
C29_PollStateKept ==
  [][(/\ MorphFrameStep
      /\ mounted
      /\ spotifyToken
      /\ morphSource = "spotify"
      /\ synthCall = "poll"
      /\ voiceState = synthState) => voiceState' = synthState]_vars

====
